---- MODULE Spec2Model ----
(***************************************************************************)
(* Family tree screen (src/app/tree.tsx): the members list held by the     *)
(* screen, the family persisted for the current user, and the handlers     *)
(* that change them: loadMembers, saveQuickRelation, importFromJsonText    *)
(* and the reset action.                                                   *)
(*                                                                         *)
(* A string is a sequence of tokens: one-character strings where the code  *)
(* looks inside it (ids, names, which it trims), one token for a word it   *)
(* only compares (a relation type).  An optional string field is <<>> when *)
(* undefined and <<s>> when it holds the string s.                         *)
(***************************************************************************)
EXTENDS Integers, Sequences, FiniteSets, TLC

VARIABLES members, stored, userKey, last, edits, decoded, result,
          calls, objects, stateArray, presses, log

\* The screen, and the sanitizer taken on its own (a value and what
\* normalizeImportedFamily returns for it).
screenVars == <<members, stored, userKey, last, edits>>
sanitizerVars == <<decoded, result>>
\* The handlers taken step by step (the invocations in flight, the member
\* objects, the array that the members state holds, what the user pressed
\* and what came of it).
awaitVars == <<calls, objects, stateArray, presses, log>>

vars == <<screenVars, sanitizerVars, awaitVars>>

\* The run considered ends with its MaxEdits-th saved relation edit.
MaxEdits == 2

(***************************************************************************)
(* Strings                                                                 *)
(***************************************************************************)
Undef == <<>>
Some(s) == <<s>>

RECURSIVE TrimStart(_)
TrimStart(s) ==
  IF s # <<>> /\ Head(s) = " " THEN TrimStart(Tail(s)) ELSE s

RECURSIVE TrimEnd(_)
TrimEnd(s) ==
  IF s # <<>> /\ s[Len(s)] = " " THEN TrimEnd(SubSeq(s, 1, Len(s) - 1)) ELSE s

\* String.prototype.trim
Trim(s) == TrimEnd(TrimStart(s))

(***************************************************************************)
(* Ids: `${Date.now()}-${Math.floor(Math.random() * 10000)}`               *)
(***************************************************************************)
NewId(t, r) == <<ToString(t), "-", ToString(r)>>

\* The stamps considered: millisecond readings 1, 2 and draws 0, 1.
Stamps == <<NewId(1, 0), NewId(1, 1), NewId(2, 0), NewId(2, 1)>>

GenIds == {Stamps[i] : i \in 1..Len(Stamps)}

(***************************************************************************)
(* Members and relations                                                   *)
(***************************************************************************)
Member(id, name, dob, email, photo, relations) ==
  [id |-> id, name |-> name, dob |-> dob, email |-> email, photo |-> photo,
   relations |-> relations]

Rel(type, targetId) == [type |-> type, targetId |-> targetId]

Ids(list) == {list[i].id : i \in 1..Len(list)}

\* What the id expression can evaluate to when `list` is the graph.  The code
\* only ever compares ids, so the stamps that are not in the list stand for
\* one another and the first of them is taken; every stamp that is in the
\* list is an outcome too (same millisecond, same draw).
NewIds(list) ==
  LET unused == {i \in 1..Len(Stamps) : Stamps[i] \notin Ids(list)}
  IN (IF unused = {} THEN {}
      ELSE {Stamps[CHOOSE i \in unused : \A j \in unused : i <= j]})
     \cup (Ids(list) \cap GenIds)

\* Array.prototype.find(m => m.id === id): index of the first match, 0 if none.
find(list, id) ==
  IF \E i \in 1..Len(list) : list[i].id = id
  THEN CHOOSE i \in 1..Len(list) :
         /\ list[i].id = id
         /\ \A j \in 1..(i - 1) : list[j].id # id
  ELSE 0

HasRel(rels, type, targetId) ==
  \E i \in 1..Len(rels) : rels[i].targetId = targetId /\ rels[i].type = type

parent == <<"parent">>
child == <<"child">>
spouse == <<"spouse">>
partner == <<"partner">>
sibling == <<"sibling">>
other == <<"other">>

reciprocal(type) ==
  CASE type = parent -> child
    [] type = child -> parent
    [] type \in {spouse, partner, sibling} -> type
    [] OTHER -> other

\* Mutant of PushRel: the push without the look for an identical pair.
PushRel_unchecked(list, i, type, targetId) ==
  [list EXCEPT ![i].relations = Append(@, Rel(type, targetId))]

\* relations.push(rel) unless an identical (type, targetId) pair is present.
PushRel(list, i, type, targetId) ==
  IF HasRel(list[i].relations, type, targetId)
  THEN list
  ELSE [list EXCEPT ![i].relations = Append(@, Rel(type, targetId))]

\* Mutant of addRelationPair: the relation without its reciprocal.
addRelationPair_oneWay(list, id1, id2, type1to2) ==
  LET i1 == find(list, id1)
      i2 == find(list, id2)
  IN IF i1 = 0 \/ i2 = 0 THEN list ELSE PushRel(list, i1, type1to2, id2)

\* Lines 384-397.
addRelationPair(list, id1, id2, type1to2) ==
  LET i1 == find(list, id1)
      i2 == find(list, id2)
  IN IF i1 = 0 \/ i2 = 0
     THEN list
     ELSE PushRel(PushRel(list, i1, type1to2, id2), i2, reciprocal(type1to2), id1)

\* Index of the first spouse or partner relation (line 423), 0 if none.
FirstSpouse(rels) ==
  IF \E i \in 1..Len(rels) : rels[i].type \in {spouse, partner}
  THEN CHOOSE i \in 1..Len(rels) :
         /\ rels[i].type \in {spouse, partner}
         /\ \A j \in 1..(i - 1) : rels[j].type \notin {spouse, partner}
  ELSE 0

IsChildRel(r) == r.type = child

RECURSIVE LinkChildren(_, _, _)
LinkChildren(list, childrenRels, finalTargetId) ==
  IF childrenRels = <<>>
  THEN list
  ELSE LinkChildren(
         addRelationPair(list, finalTargetId, Head(childrenRels).targetId, child),
         Tail(childrenRels), finalTargetId)

\* Mutant of jointParenting: no propagation to the spouse.
jointParenting_skipped(list, sourceId, finalTargetId) == list

\* Lines 421-424.
jointParenting(list, sourceId, finalTargetId) ==
  LET s == find(list, sourceId)
      k == IF s = 0 THEN 0 ELSE FirstSpouse(list[s].relations)
  IN IF k = 0
     THEN list
     ELSE addRelationPair(list, list[s].relations[k].targetId, finalTargetId, child)

\* Mutant of spouseChildLinking: only the first child is linked.
spouseChildLinking_firstOnly(list, sourceId, finalTargetId) ==
  LET s == find(list, sourceId)
      childrenRels == IF s = 0 THEN <<>> ELSE SelectSeq(list[s].relations, IsChildRel)
  IN IF childrenRels = <<>>
     THEN list
     ELSE addRelationPair(list, finalTargetId, Head(childrenRels).targetId, child)

\* Lines 425-429.
spouseChildLinking(list, sourceId, finalTargetId) ==
  LET s == find(list, sourceId)
      childrenRels == IF s = 0 THEN <<>> ELSE SelectSeq(list[s].relations, IsChildRel)
  IN LinkChildren(list, childrenRels, finalTargetId)

\* Mutant of linkRelation: joint parenting on sibling edits too.
linkRelation_siblingJoint(list, sourceId, finalTargetId, type) ==
  LET paired == addRelationPair(list, sourceId, finalTargetId, type)
  IN IF type = spouse THEN spouseChildLinking(paired, sourceId, finalTargetId)
     ELSE jointParenting(paired, sourceId, finalTargetId)

\* Lines 418-429: the pair itself, then joint parenting (child edits) or
\* spouse child-linking (spouse edits).
linkRelation(list, sourceId, finalTargetId, type) ==
  LET paired == addRelationPair(list, sourceId, finalTargetId, type)
  IN IF type = child THEN jointParenting(paired, sourceId, finalTargetId)
     ELSE IF type = spouse THEN spouseChildLinking(paired, sourceId, finalTargetId)
     ELSE paired

(***************************************************************************)
(* Decoded JSON values, and the import sanitizer                           *)
(***************************************************************************)
JNull == [k |-> "null"]
JUndef == [k |-> "undefined"]
JNum == [k |-> "number"]
JStr(s) == [k |-> "string", s |-> s]
JArr(a) == [k |-> "array", a |-> a]
JObj(o) == [k |-> "object", o |-> o]

\* value.field, undefined when the value has no such property.
Get(v, f) == IF v.k = "object" /\ f \in DOMAIN v.o THEN v.o[f] ELSE JUndef

\* Array.isArray(v)
IsArray(v) == v.k = "array"
\* v && typeof v === 'object'
IsObjectLike(v) == v.k \in {"object", "array"}
\* Mutant of IsNonBlankString: the string is not trimmed.
IsNonBlankString_untrimmed(v) == v.k = "string" /\ v.s # <<>>

\* typeof v === 'string' && v.trim() is not empty
IsNonBlankString(v) == v.k = "string" /\ Trim(v.s) # <<>>
\* typeof v === 'string' ? v : undefined
OptString(v) == IF v.k = "string" THEN Some(v.s) ELSE Undef

\* Lines 91-95.
rawList(data) ==
  IF IsArray(data) THEN data
  ELSE IF IsObjectLike(data) /\ IsArray(Get(data, "members"))
       THEN Get(data, "members")
       ELSE JArr(<<>>)

\* Lines 116-124.
RECURSIVE mapRelations(_, _)
mapRelations(raw, id) ==
  IF raw = <<>>
  THEN <<>>
  ELSE LET r == Head(raw)
           type == IF Get(r, "type").k = "string" THEN Get(r, "type").s ELSE other
           targetId == IF Get(r, "targetId").k = "string"
                       THEN Get(r, "targetId").s ELSE <<>>
           rest == mapRelations(Tail(raw), id)
       IN IF IsObjectLike(r) /\ targetId # <<>> /\ targetId # id
          THEN <<Rel(type, targetId)>> \o rest
          ELSE rest

\* Mutant of sanitizeRelations: relations to the item's own id are kept.
sanitizeRelations_keepSelf(relationsRaw, id) ==
  IF IsArray(relationsRaw) THEN mapRelations(relationsRaw.a, <<>>) ELSE <<>>

sanitizeRelations(relationsRaw, id) ==
  IF IsArray(relationsRaw) THEN mapRelations(relationsRaw.a, id) ELSE <<>>

\* Lines 102-127: the loop over rawList, `seen` and `sanitized` as it goes.
RECURSIVE sanitizeItems(_, _, _)
sanitizeItems(items, seen, sanitized) ==
  IF items = <<>>
  THEN sanitized
  ELSE LET item == Head(items)
           id == Get(item, "id")
           name == Get(item, "name")
       IN IF \/ ~IsObjectLike(item)
             \/ ~IsNonBlankString(id)
             \/ ~IsNonBlankString(name)
             \/ id.s \in seen
          THEN sanitizeItems(Tail(items), seen, sanitized)
          ELSE sanitizeItems(
                 Tail(items), seen \cup {id.s},
                 Append(sanitized,
                        Member(id.s, Trim(name.s), OptString(Get(item, "dob")),
                               OptString(Get(item, "email")),
                               OptString(Get(item, "photo")),
                               sanitizeRelations(Get(item, "relations"), id.s))))

\* Lines 131-136.
RECURSIVE keepKnown(_, _)
keepKnown(rels, idSet) ==
  IF rels = <<>>
  THEN <<>>
  ELSE IF Head(rels).targetId \in idSet
       THEN <<Head(rels)>> \o keepKnown(Tail(rels), idSet)
       ELSE keepKnown(Tail(rels), idSet)

\* Mutant of pruneRelations: relations to missing members are kept.
pruneRelations_keepAll(sanitized) == sanitized

pruneRelations(sanitized) ==
  [i \in 1..Len(sanitized) |->
     [sanitized[i] EXCEPT !.relations = keepKnown(@, Ids(sanitized))]]

\* The null result, and a list result.
Rejected == [ok |-> FALSE, list |-> <<>>]
Accepted(list) == [ok |-> TRUE, list |-> list]

\* Lines 90-137.
normalizeImportedFamily(data) ==
  LET raw == rawList(data)
  IN IF ~IsArray(raw)
     THEN Rejected
     ELSE LET sanitized == sanitizeItems(raw.a, {}, <<>>)
          IN IF Len(sanitized) = 0
             THEN Accepted(<<>>)
             ELSE Accepted(pruneRelations(sanitized))

(***************************************************************************)
(* Inputs of the handlers                                                  *)
(***************************************************************************)
\* AsyncStorage.getItem('currentUser') === null
NoUser == <<>>
\* targetId === null
NoTarget == <<>>

\* Texts typed into the name field of the relation modal.
Names == {<<>>, <<" ">>, <<" ", "a">>}

\* relationModal.type
EditTypes == {child, spouse, sibling}

\* Members offered by the picker of the modal opened on sourceId (lines
\* 621-626), and no pick.
Targets(list, sourceId) == {NoTarget} \cup (Ids(list) \ {sourceId})

\* The texts handed to importFromJsonText, each given by what JSON.parse
\* makes of it (parses = FALSE: it throws).
JRel(type, targetId) == JObj([type |-> JStr(type), targetId |-> JStr(targetId)])
JMember(id, name, rels) ==
  JObj([id |-> JStr(id), name |-> JStr(name), relations |-> JArr(rels)])

Parsed(v) == [parses |-> TRUE, value |-> v]

\* {"members": [x, y, z]}: x is the spouse of y and the partner of z, and z
\* is a child of y.  Every relation has its reciprocal.
FamilyText ==
  Parsed(JObj([members |-> JArr(<<
    JMember(<<"x">>, <<"a">>, <<JRel(spouse, <<"y">>), JRel(partner, <<"z">>)>>),
    JMember(<<"y">>, <<"b">>, <<JRel(spouse, <<"x">>), JRel(child, <<"z">>)>>),
    JMember(<<"z">>, <<"c">>, <<JRel(partner, <<"x">>), JRel(parent, <<"y">>)>>) >>)]))

\* A bare array with a stray number, a member holding a dangling, a self and
\* an untyped relation, a later duplicate of its id, a member with a blank
\* name, and a member whose relation has no reciprocal.
MessyText ==
  Parsed(JArr(<<
    JNum,
    JObj([id |-> JStr(Stamps[1]), name |-> JStr(<<" ", "b", " ">>),
          dob |-> JStr(<<"d">>), email |-> JNum,
          relations |-> JArr(<<
            JRel(child, <<"q">>),
            JRel(sibling, Stamps[1]),
            JObj([type |-> JNum, targetId |-> JStr(<<"x">>)]),
            JObj([type |-> JStr(child)]),
            JStr(<<"r">>) >>)]),
    JMember(Stamps[1], <<"c">>, <<>>),
    JMember(<<"x">>, <<" ">>, <<>>),
    JMember(<<"y">>, <<"c">>, <<JRel(parent, Stamps[1]), JRel(child, <<"x">>)>>) >>))

ImportTexts ==
  << [parses |-> FALSE, value |-> JUndef],
     Parsed(JNum),
     Parsed(JStr(<<"a">>)),
     Parsed(JNull),
     Parsed(JObj([tree |-> JNull])),
     Parsed(JObj([members |-> JStr(<<"a">>)])),
     Parsed(JArr(<<>>)),
     Parsed(JObj([members |-> JArr(<<JNum>>)])),
     FamilyText,
     MessyText >>

\* JSON.parse(text)
JSONparse(text) == ImportTexts[text]

\* The stored user profile as ensureDefaultMember reads it (null, or
\* unparseable, when every field is Undef).
Profiles ==
  { [name |-> Undef, dob |-> Undef, email |-> Undef, photo |-> Undef],
    [name |-> Some(<<" ", "a">>), dob |-> Some(<<"d">>), email |-> Some(<<>>),
     photo |-> Undef] }

\* JavaScript truthiness of an optional string.
Truthy(opt) == opt # Undef /\ opt[1] # <<>>

\* Mutant of ensureDefaultMember: the list is returned as it is given.
ensureDefaultMember_asGiven(list, user, id) == list

\* Lines 46-77.  Returns the list; it is saved exactly when it was created.
ensureDefaultMember(list, user, id) ==
  IF Len(list) > 0
  THEN list
  ELSE << Member(id,
                 IF Truthy(user.name) THEN user.name[1] ELSE <<"M", "e">>,
                 IF Truthy(user.dob) THEN user.dob ELSE Undef,
                 IF Truthy(user.email) THEN user.email ELSE Undef,
                 IF Truthy(user.photo) THEN user.photo ELSE Undef,
                 <<>>) >>

(***************************************************************************)
(* Export: what JSON.parse makes of JSON.stringify(members, null, 2)       *)
(***************************************************************************)
\* A member object in the text: a property that is undefined is left out.
exportedMember(m) ==
  LET fields == {"id", "name", "relations"}
                  \cup {f \in {"dob", "email", "photo"} : m[f] # Undef}
  IN JObj([f \in fields |->
             CASE f = "relations" ->
                    JArr([k \in 1..Len(m.relations) |->
                            JRel(m.relations[k].type, m.relations[k].targetId)])
               [] f \in {"id", "name"} -> JStr(m[f])
               [] OTHER -> JStr(m[f][1])])

\* Lines 139-142: the members list as a bare array.
openExportModal(list) == JArr([i \in 1..Len(list) |-> exportedMember(list[i])])

(***************************************************************************)
(* FamilyService: the persisted family of the current user                 *)
(***************************************************************************)
getFamily(store) == store
saveFamily(store, list) == list
resetFamily(store) == <<>>

(***************************************************************************)
(* Handlers                                                                *)
(*                                                                         *)
(* `last` is what the handler that ran last did: the alert it raised or    *)
(* the way it ended (op) and, for a saved relation edit or an import, what *)
(* it was asked for.                                                       *)
(***************************************************************************)
Did(op) ==
  [op |-> op, sourceId |-> <<>>, type |-> <<>>, useNewTarget |-> FALSE,
   targetId |-> <<>>, text |-> 0]

DidImport(op, text) == [Did(op) EXCEPT !.text = text]

DidEdit(sourceId, type, useNewTarget, finalTargetId) ==
  [op |-> "saved", sourceId |-> sourceId, type |-> type,
   useNewTarget |-> useNewTarget, targetId |-> finalTargetId, text |-> 0]

Running == edits < MaxEdits

\* No value has been handed to the sanitizer on its own.
SanitizerIdle == decoded = JUndef /\ result = Rejected

\* What the step-by-step handlers have done so far: a save was refused by
\* the storage, a load, import or reset installed its list after a relation
\* edit was pressed, and the (source, type, target) of the edits committed.
NoLog == [failed |-> FALSE, replaced |-> FALSE, committed |-> {}]

\* Every handler runs to its end in one step: none is in flight at a state.
AwaitIdle ==
  /\ calls = <<>>
  /\ objects = <<>>
  /\ stateArray = <<>>
  /\ presses = 0
  /\ log = NoLog

Init ==
  /\ members = <<>>
  /\ stored = <<>>
  /\ userKey \in {NoUser, <<"u">>}
  /\ last = Did("mount")
  /\ edits = 0
  /\ SanitizerIdle
  /\ AwaitIdle

\* Lines 79-88.
loadMembers ==
  \E user \in Profiles, id \in NewIds(<<>>) :
    /\ Running
    /\ UNCHANGED <<sanitizerVars, awaitVars>>
    /\ IF userKey = NoUser
       THEN /\ last' = Did("login")
            /\ UNCHANGED <<members, stored, userKey, edits>>
       ELSE LET list == getFamily(stored)
                ensured == ensureDefaultMember(list, user, id)
            IN /\ members' = ensured
               /\ stored' = IF Len(list) > 0 THEN stored
                            ELSE saveFamily(stored, ensured)
               /\ last' = Did("loaded")
               /\ UNCHANGED <<userKey, edits>>

\* Mutant of installedAfterPush: `list` is the installed array itself.
installedAfterPush_aliased(installed, list) == list

\* Line 382: `list` is a new array, so the push of line 406 leaves the
\* installed one as it was.
installedAfterPush(installed, list) == installed

\* Lines 374-434, with the modal open on sourceId for an edit of `type`.
saveQuickRelation(sourceId, type, useNewTarget, newTargetName, targetId, id) ==
  /\ Running
  /\ UNCHANGED <<sanitizerVars, awaitVars>>
  /\ IF userKey = NoUser
     THEN /\ last' = Did("login")
          /\ UNCHANGED <<members, stored, userKey, edits>>
     ELSE IF useNewTarget /\ Trim(newTargetName) = <<>>
     THEN /\ last' = Did("Name required")
          /\ UNCHANGED <<members, stored, userKey, edits>>
     ELSE LET finalTargetId == IF useNewTarget THEN id ELSE targetId
              list == IF useNewTarget
                      THEN Append(members,
                                  Member(id, Trim(newTargetName), Undef, Undef,
                                         Undef, <<>>))
                      ELSE members
          IN IF finalTargetId = NoTarget
             THEN /\ last' = Did("Select member")
                  /\ members' = installedAfterPush(members, list)
                  /\ UNCHANGED <<stored, userKey, edits>>
             ELSE IF finalTargetId = sourceId
             THEN /\ last' = Did("Invalid")
                  /\ members' = installedAfterPush(members, list)
                  /\ UNCHANGED <<stored, userKey, edits>>
             ELSE LET next == linkRelation(list, sourceId, finalTargetId, type)
                  IN /\ stored' = saveFamily(stored, next)
                     /\ members' = next
                     /\ last' = DidEdit(sourceId, type, useNewTarget, finalTargetId)
                     /\ edits' = edits + 1
                     /\ UNCHANGED userKey

\* The modal is opened on a member of the list (lines 538-556), and the
\* fields that the chosen mode does not read are left as openRelationModal
\* sets them.
SaveQuickRelation ==
  \E sourceId \in Ids(members), type \in EditTypes, useNewTarget \in BOOLEAN :
    \E newTargetName \in (IF useNewTarget THEN Names ELSE {<<>>}),
       targetId \in (IF useNewTarget THEN {NoTarget} ELSE Targets(members, sourceId)) :
      \E id \in (IF useNewTarget /\ Trim(newTargetName) # <<>>
                 THEN NewIds(members) ELSE {NoTarget}) :
        saveQuickRelation(sourceId, type, useNewTarget, newTargetName, targetId, id)

\* Lines 191-218.
importFromJsonText(text, user, id) ==
  /\ Running
  /\ UNCHANGED <<sanitizerVars, awaitVars>>
  /\ IF userKey = NoUser
     THEN /\ last' = Did("login")
          /\ UNCHANGED <<members, stored, userKey, edits>>
     ELSE LET parsed == JSONparse(text)
          IN IF ~parsed.parses
             THEN /\ last' = DidImport("Invalid JSON", text)
                  /\ UNCHANGED <<members, stored, userKey, edits>>
             ELSE LET next == normalizeImportedFamily(parsed.value)
                  IN IF ~next.ok
                     THEN /\ last' = DidImport("Invalid format", text)
                          /\ UNCHANGED <<members, stored, userKey, edits>>
                     ELSE LET ensured == ensureDefaultMember(next.list, user, id)
                          IN /\ stored' = saveFamily(stored, ensured)
                             /\ members' = ensured
                             /\ last' = DidImport("Imported", text)
                             /\ UNCHANGED <<userKey, edits>>

ImportFromJsonText ==
  \E text \in DOMAIN ImportTexts, user \in Profiles, id \in NewIds(<<>>) :
    importFromJsonText(text, user, id)

\* Lines 293-302.
performReset ==
  \E user \in Profiles, id \in NewIds(<<>>) :
    /\ Running
    /\ UNCHANGED <<sanitizerVars, awaitVars>>
    /\ IF userKey = NoUser
       THEN /\ last' = Did("ignored")
            /\ UNCHANGED <<members, stored, userKey, edits>>
       ELSE LET ensured == ensureDefaultMember(<<>>, user, id)
            IN /\ stored' = saveFamily(resetFamily(stored), ensured)
               /\ members' = ensured
               /\ last' = Did("Success")
               /\ UNCHANGED <<userKey, edits>>

Next ==
  \/ loadMembers
  \/ SaveQuickRelation
  \/ ImportFromJsonText
  \/ performReset

Spec == Init /\ [][Next]_vars

\* The graphs made from the bootstrap member by relation edits alone.
EditNext ==
  \/ loadMembers
  \/ SaveQuickRelation

EditSpec == Init /\ [][EditNext]_vars

(***************************************************************************)
(* The handlers step by step.  Every handler is an async function: it      *)
(* runs up to an awaited call and goes on, when the call has settled, up   *)
(* to the next one, and the steps of the invocations in flight interleave. *)
(* A member is an object: `objects` holds the objects made so far and an   *)
(* array (the one the members state holds, the `list` of an invocation) is *)
(* a sequence of indexes into it, so that two arrays can hold the same     *)
(* object.  `members` is what the screen reads: the objects of its array.  *)
(***************************************************************************)
\* The user presses at most MaxPresses buttons after the mount.
MaxPresses == 2

\* The texts imported: the empty array and the family of three.
AwaitTexts ==
  {n \in DOMAIN ImportTexts : ImportTexts[n] \in {Parsed(JArr(<<>>)), FamilyText}}

\* An invocation that awaits AsyncStorage.getItem('currentUser').  snapshot
\* is the members array of the render the handler was made in (line 434),
\* list the array of line 382 and next the list handed to saveFamily.
NewCall(kind) ==
  [kind |-> kind, pc |-> "currentUser", snapshot |-> <<>>, sourceId |-> <<>>,
   type |-> <<>>, useNewTarget |-> FALSE, newTargetName |-> <<>>,
   targetId |-> <<>>, text |-> 0, list |-> <<>>, next |-> <<>>]

\* The invocations in flight but for the c-th.
Without(c) == SubSeq(calls, 1, c - 1) \o SubSeq(calls, c + 1, Len(calls))

\* The members that an array holds.
ValuesOf(objs, refs) == [i \in 1..Len(refs) |-> objs[refs[i]]]

\* The id expression of lines 66 and 405 in these runs: a stamp that no
\* member made so far has.
FreshIds ==
  LET used == Ids(objects) \cup Ids(stored)
                \cup UNION {Ids(calls[c].next) : c \in DOMAIN calls}
      unused == {i \in 1..Len(Stamps) : Stamps[i] \notin used}
  IN IF unused = {} THEN {}
     ELSE {Stamps[CHOOSE i \in unused : \A j \in unused : i <= j]}

\* A relation edit has been pressed and not refused.
EditUnderWay == log.committed # {} \/ \E c \in DOMAIN calls : calls[c].kind = "edit"

\* setMembers(list) with a list of objects that the handler has just made.
setMembersNew(list, op) ==
  /\ objects' = objects \o list
  /\ stateArray' = [i \in 1..Len(list) |-> Len(objects) + i]
  /\ members' = list
  /\ last' = op
  /\ log' = [log EXCEPT !.replaced = @ \/ EditUnderWay]

\* The handler returns without having changed anything.
Return(c, op) ==
  /\ calls' = Without(c)
  /\ last' = op
  /\ UNCHANGED <<members, stored, edits, objects, stateArray, log>>

\* The handler makes its next awaited call.
Await(c, pc) ==
  /\ calls' = [calls EXCEPT ![c].pc = pc]
  /\ last' = Did("awaiting")
  /\ UNCHANGED <<members, stored, edits, objects, stateArray, log>>

\* The awaited saveFamily rejects: the handler ends there.
Rejects(c) ==
  /\ calls' = Without(c)
  /\ last' = Did("save failed")
  /\ log' = [log EXCEPT !.failed = TRUE]
  /\ UNCHANGED <<members, stored, edits, objects, stateArray>>

AwaitInit ==
  /\ members = <<>>
  /\ stored = <<>>
  /\ userKey \in {NoUser, <<"u">>}
  /\ last = Did("mount")
  /\ edits = 0
  /\ SanitizerIdle
  /\ calls = <<NewCall("load"), NewCall("load")>>
  /\ objects = <<>>
  /\ stateArray = <<>>
  /\ presses = 0
  /\ log = NoLog

\* Lines 281-285: the screen is focused again.
useFocusEffect ==
  /\ presses < MaxPresses
  /\ presses' = presses + 1
  /\ calls' = Append(calls, NewCall("load"))
  /\ last' = Did("called")
  /\ UNCHANGED <<members, stored, userKey, edits, sanitizerVars, objects,
                 stateArray, log>>

\* Lines 642-648: Save is pressed in the modal open on a member of the list.
\* Nothing disables the button while an invocation is in flight.
pressSave ==
  \E sourceId \in Ids(members), type \in EditTypes, useNewTarget \in BOOLEAN :
    \E newTargetName \in (IF useNewTarget THEN Names ELSE {<<>>}),
       targetId \in (IF useNewTarget THEN {NoTarget} ELSE Targets(members, sourceId)) :
      /\ presses < MaxPresses
      /\ presses' = presses + 1
      /\ calls' = Append(calls,
                         [NewCall("edit") EXCEPT
                            !.snapshot = stateArray, !.sourceId = sourceId,
                            !.type = type, !.useNewTarget = useNewTarget,
                            !.newTargetName = newTargetName, !.targetId = targetId])
      /\ last' = Did("called")
      /\ UNCHANGED <<members, stored, userKey, edits, sanitizerVars, objects,
                     stateArray, log>>

\* Lines 272-275.
handleImport ==
  \E text \in AwaitTexts :
    /\ presses < MaxPresses
    /\ presses' = presses + 1
    /\ calls' = Append(calls, [NewCall("import") EXCEPT !.text = text])
    /\ last' = Did("called")
    /\ UNCHANGED <<members, stored, userKey, edits, sanitizerVars, objects,
                   stateArray, log>>

\* Lines 292-319.
handleReset ==
  /\ presses < MaxPresses
  /\ presses' = presses + 1
  /\ calls' = Append(calls, NewCall("reset"))
  /\ last' = Did("called")
  /\ UNCHANGED <<members, stored, userKey, edits, sanitizerVars, objects,
                 stateArray, log>>

\* Lines 80-83.
loadMembers_currentUser ==
  \E c \in DOMAIN calls :
    /\ calls[c].kind = "load" /\ calls[c].pc = "currentUser"
    /\ UNCHANGED <<userKey, sanitizerVars, presses>>
    /\ IF userKey = NoUser
       THEN Return(c, Did("login"))
       ELSE Await(c, "getFamily")

\* Lines 83-87: the family read is parsed into objects of its own.
loadMembers_getFamily ==
  \E c \in DOMAIN calls :
    /\ calls[c].kind = "load" /\ calls[c].pc = "getFamily"
    /\ UNCHANGED <<userKey, sanitizerVars, presses>>
    /\ LET list == getFamily(stored)
       IN IF Len(list) > 0
          THEN /\ setMembersNew(list, Did("loaded"))
               /\ calls' = Without(c)
               /\ UNCHANGED <<stored, edits>>
          ELSE Await(c, "getItem")

\* Lines 49-75: the profile is read, `me` is made and saveFamily is called.
ensureDefaultMember_getItem ==
  \E c \in DOMAIN calls, user \in Profiles, id \in FreshIds :
    /\ calls[c].pc = "getItem"
    /\ UNCHANGED <<userKey, sanitizerVars, presses>>
    /\ calls' = [calls EXCEPT ![c].pc = "saveDefault",
                              ![c].next = ensureDefaultMember(<<>>, user, id)]
    /\ last' = Did("awaiting")
    /\ UNCHANGED <<members, stored, edits, objects, stateArray, log>>

\* Lines 75-76, and what the caller does with the list returned: lines 85-87
\* of loadMembers, line 211 of importFromJsonText, lines 300-301 of
\* performReset.
ensureDefaultMember_saveFamily ==
  \E c \in DOMAIN calls, settled \in BOOLEAN :
    /\ calls[c].pc = "saveDefault"
    /\ UNCHANGED <<userKey, sanitizerVars, presses>>
    /\ IF ~settled
       THEN Rejects(c)
       ELSE /\ stored' = saveFamily(stored, calls[c].next)
            /\ IF calls[c].kind = "import"
               THEN /\ calls' = [calls EXCEPT ![c].pc = "saveFamily"]
                    /\ last' = Did("awaiting")
                    /\ UNCHANGED <<members, edits, objects, stateArray, log>>
               ELSE /\ setMembersNew(calls[c].next,
                                     Did(IF calls[c].kind = "load"
                                         THEN "loaded" ELSE "Success"))
                    /\ calls' = Without(c)
                    /\ UNCHANGED edits

\* Lines 377-431.  `list` is a new array of the objects of the snapshot:
\* addRelationPair pushes into the relations of those objects.
saveQuickRelation_currentUser ==
  \E c \in DOMAIN calls :
    \E id \in (IF calls[c].useNewTarget /\ Trim(calls[c].newTargetName) # <<>>
               THEN FreshIds ELSE {NoTarget}) :
      /\ calls[c].kind = "edit" /\ calls[c].pc = "currentUser"
      /\ UNCHANGED <<userKey, sanitizerVars, presses>>
      /\ IF userKey = NoUser
         THEN Return(c, Did("login"))
         ELSE IF calls[c].useNewTarget /\ Trim(calls[c].newTargetName) = <<>>
         THEN Return(c, Did("Name required"))
         ELSE LET sourceId == calls[c].sourceId
                  finalTargetId == IF calls[c].useNewTarget THEN id
                                   ELSE calls[c].targetId
                  refs == calls[c].snapshot
                  held == ValuesOf(objects, refs)
                  list == IF calls[c].useNewTarget
                          THEN Append(held,
                                      Member(id, Trim(calls[c].newTargetName),
                                             Undef, Undef, Undef, <<>>))
                          ELSE held
              IN IF finalTargetId = NoTarget
                 THEN Return(c, Did("Select member"))
                 ELSE IF finalTargetId = sourceId
                 THEN Return(c, Did("Invalid"))
                 ELSE LET next == linkRelation(list, sourceId, finalTargetId,
                                               calls[c].type)
                          objs == [o \in 1..Len(objects) |->
                                     IF \E i \in 1..Len(refs) : refs[i] = o
                                     THEN next[CHOOSE i \in 1..Len(refs) : refs[i] = o]
                                     ELSE objects[o]]
                                    \o (IF calls[c].useNewTarget
                                        THEN <<next[Len(next)]>> ELSE <<>>)
                      IN /\ objects' = objs
                         /\ members' = ValuesOf(objs, stateArray)
                         /\ calls' = [calls EXCEPT
                                        ![c].pc = "saveFamily",
                                        ![c].targetId = finalTargetId,
                                        ![c].list = IF calls[c].useNewTarget
                                                    THEN Append(refs, Len(objects) + 1)
                                                    ELSE refs,
                                        ![c].next = next]
                         /\ last' = Did("awaiting")
                         /\ UNCHANGED <<stored, edits, stateArray, log>>

\* Lines 431-433.
saveQuickRelation_saveFamily ==
  \E c \in DOMAIN calls, settled \in BOOLEAN :
    /\ calls[c].kind = "edit" /\ calls[c].pc = "saveFamily"
    /\ UNCHANGED <<userKey, sanitizerVars, presses>>
    /\ IF ~settled
       THEN Rejects(c)
       ELSE /\ stored' = saveFamily(stored, calls[c].next)
            /\ stateArray' = calls[c].list
            /\ members' = ValuesOf(objects, calls[c].list)
            /\ last' = DidEdit(calls[c].sourceId, calls[c].type,
                               calls[c].useNewTarget, calls[c].targetId)
            /\ edits' = edits + 1
            /\ log' = [log EXCEPT !.committed =
                         @ \cup {<<calls[c].sourceId, calls[c].type,
                                   calls[c].targetId>>}]
            /\ calls' = Without(c)
            /\ UNCHANGED objects

\* Lines 193-210.
importFromJsonText_currentUser ==
  \E c \in DOMAIN calls :
    /\ calls[c].kind = "import" /\ calls[c].pc = "currentUser"
    /\ UNCHANGED <<userKey, sanitizerVars, presses>>
    /\ IF userKey = NoUser
       THEN Return(c, Did("login"))
       ELSE LET parsed == JSONparse(calls[c].text)
                next == normalizeImportedFamily(parsed.value)
            IN IF ~parsed.parses
               THEN Return(c, DidImport("Invalid JSON", calls[c].text))
               ELSE IF ~next.ok
               THEN Return(c, DidImport("Invalid format", calls[c].text))
               ELSE IF Len(next.list) > 0
               THEN /\ calls' = [calls EXCEPT ![c].pc = "saveFamily",
                                              ![c].next = next.list]
                    /\ last' = Did("awaiting")
                    /\ UNCHANGED <<members, stored, edits, objects, stateArray, log>>
               ELSE Await(c, "getItem")

\* Lines 211-215.
importFromJsonText_saveFamily ==
  \E c \in DOMAIN calls, settled \in BOOLEAN :
    /\ calls[c].kind = "import" /\ calls[c].pc = "saveFamily"
    /\ UNCHANGED <<userKey, sanitizerVars, presses>>
    /\ IF ~settled
       THEN Rejects(c)
       ELSE /\ stored' = saveFamily(stored, calls[c].next)
            /\ setMembersNew(calls[c].next, DidImport("Imported", calls[c].text))
            /\ calls' = Without(c)
            /\ UNCHANGED edits

\* Lines 294-296.
performReset_currentUser ==
  \E c \in DOMAIN calls :
    /\ calls[c].kind = "reset" /\ calls[c].pc = "currentUser"
    /\ UNCHANGED <<userKey, sanitizerVars, presses>>
    /\ IF userKey = NoUser
       THEN Return(c, Did("ignored"))
       ELSE Await(c, "resetFamily")

\* Lines 296-299.
performReset_resetFamily ==
  \E c \in DOMAIN calls :
    /\ calls[c].kind = "reset" /\ calls[c].pc = "resetFamily"
    /\ UNCHANGED <<userKey, sanitizerVars, presses>>
    /\ stored' = resetFamily(stored)
    /\ calls' = [calls EXCEPT ![c].pc = "getItem"]
    /\ last' = Did("awaiting")
    /\ UNCHANGED <<members, edits, objects, stateArray, log>>

AwaitNext ==
  \/ useFocusEffect
  \/ pressSave
  \/ handleImport
  \/ handleReset
  \/ loadMembers_currentUser
  \/ loadMembers_getFamily
  \/ ensureDefaultMember_getItem
  \/ ensureDefaultMember_saveFamily
  \/ saveQuickRelation_currentUser
  \/ saveQuickRelation_saveFamily
  \/ importFromJsonText_currentUser
  \/ importFromJsonText_saveFamily
  \/ performReset_currentUser
  \/ performReset_resetFamily

AwaitSpec == AwaitInit /\ [][AwaitNext]_vars

(***************************************************************************)
(* The sanitizer on its own: normalizeImportedFamily applied to the values *)
(* made of up to MaxItems items, as a bare array and as the members field  *)
(* of an object.                                                           *)
(***************************************************************************)
MaxItems == 3

\* Items of the decoded array: values that are not objects, and objects
\* whose id, name, optional fields and relations are well and ill formed.
ImportItems ==
  << JNum,
     JNull,
     JArr(<<>>),
     JObj([id |-> JStr(<<"a">>), name |-> JStr(<<"n">>),
           relations |-> JArr(<<
             JRel(child, <<"b">>),
             JRel(sibling, <<"a">>),
             JRel(child, <<"q">>),
             JObj([type |-> JNum, targetId |-> JStr(<<"b">>)]) >>)]),
     JMember(<<"a">>, <<"m">>, <<>>),
     JObj([id |-> JStr(<<"b">>), name |-> JStr(<<" ", "n", " ">>),
           dob |-> JStr(<<"d">>), email |-> JNum,
           relations |-> JArr(<<JRel(parent, <<"a">>)>>)]),
     JMember(<<" ">>, <<"n">>, <<>>),
     JMember(<<"b">>, <<" ">>, <<>>),
     JObj([id |-> JNum, name |-> JStr(<<"n">>)]),
     JObj([id |-> JStr(<<"c">>)]),
     JObj([id |-> JStr(<<"c">>), name |-> JStr(<<"n">>),
           relations |-> JStr(<<"r">>)]) >>

\* The array of a value of one of the two accepted shapes (lines 91-94).
ItemsOf(v) == IF IsArray(v) THEN v.a ELSE Get(v, "members").a

WithItems(v, a) == IF IsArray(v) THEN JArr(a) ELSE JObj([members |-> JArr(a)])

SanitizerInit ==
  /\ members = <<>>
  /\ stored = <<>>
  /\ userKey = NoUser
  /\ last = Did("mount")
  /\ edits = 0
  /\ AwaitIdle
  /\ decoded \in {JArr(<<>>), JObj([members |-> JArr(<<>>)])}
  /\ result = normalizeImportedFamily(decoded)

\* The value with one more item, handed to normalizeImportedFamily.
AppendItem ==
  \E n \in DOMAIN ImportItems :
    /\ Len(ItemsOf(decoded)) < MaxItems
    /\ decoded' = WithItems(decoded, Append(ItemsOf(decoded), ImportItems[n]))
    /\ result' = normalizeImportedFamily(decoded')
    /\ UNCHANGED <<screenVars, awaitVars>>

SanitizerNext == AppendItem

SanitizerSpec == SanitizerInit /\ [][SanitizerNext]_vars

(***************************************************************************)
(* Properties                                                              *)
(***************************************************************************)
\* The member an id denotes is the one find gives: the first with that id.
Holds(list, id, type, targetId) ==
  /\ find(list, id) # 0
  /\ HasRel(list[find(list, id)].relations, type, targetId)

NoSelfRelations(list) ==
  \A i \in 1..Len(list) : \A k \in 1..Len(list[i].relations) :
    list[i].relations[k].targetId # list[i].id

Reciprocal(list) ==
  \A i \in 1..Len(list) : \A k \in 1..Len(list[i].relations) :
    Holds(list, list[i].relations[k].targetId,
          reciprocal(list[i].relations[k].type), list[i].id)

NoDangling(list) ==
  \A i \in 1..Len(list) : \A k \in 1..Len(list[i].relations) :
    list[i].relations[k].targetId \in Ids(list)

UniqueIds(list) ==
  \A i, j \in 1..Len(list) : i # j => list[i].id # list[j].id

\* The members S holds a spouse or partner relation to.
SpousesOf(list, S) ==
  {M \in Ids(list) : Holds(list, S, spouse, M) \/ Holds(list, S, partner, M)}

ChildrenOf(list, S) == {C \in Ids(list) : Holds(list, S, child, C)}

\* The step is a saved relation edit of the given type.
SavedEdit(type) == last'.op = "saved" /\ last'.type = type

\* C1: no member holds a relation whose targetId is its own id, whatever
\* relation edits were saved (the sanitizer and the bootstrap give none).
\* Stated for the lists without a repeated id, so that no violation rests on
\* one.
C1_NoSelfRelations == UniqueIds(members) => NoSelfRelations(members)

\* C2: a saved relation edit of a graph in which every relation has its
\* reciprocal gives a graph in which every relation has its reciprocal.
C2_Reciprocity ==
  [][Reciprocal(members) /\ last'.op = "saved" => Reciprocal(members')]_vars

\* A saved child edit that propagated to the spouse, all reciprocal.
C2_Witness ==
  /\ last.op = "saved" /\ last.type = child
  /\ Reciprocal(members)
  /\ \E M \in SpousesOf(members, last.sourceId) :
       /\ M # last.targetId
       /\ Holds(members, M, child, last.targetId)

\* C3: every relation of the members list targets a member of that list.
C3_NoDangling == NoDangling(members)

MessyTextIndex == CHOOSE n \in DOMAIN ImportTexts : ImportTexts[n] = MessyText

\* The import whose text holds relations to absent and to dropped members.
C3_Witness ==
  /\ last.op = "Imported" /\ last.text = MessyTextIndex
  /\ Len(members) = 2
  /\ members[2].relations = <<Rel(parent, members[1].id)>>

\* C4: no two members of the list share an id.
C4_UniqueIds == UniqueIds(members)

\* C5 as claimed: after a saved child edit (S, T), S and T hold the pair, and
\* every M that S held a spouse or partner relation to holds child->T, T
\* holding parent->M.
C5_EverySpouse ==
  [][SavedEdit(child) =>
       LET S == last'.sourceId
           T == last'.targetId
       IN /\ Holds(members', S, child, T) /\ Holds(members', T, parent, S)
          /\ \A M \in SpousesOf(members, S) :
               Holds(members', M, child, T) /\ Holds(members', T, parent, M)]_vars

\* C5 as amended: the same for the one M that the first spouse or partner
\* relation of S targets.
C5_FirstSpouse ==
  [][SavedEdit(child) =>
       LET S == last'.sourceId
           T == last'.targetId
           rels == members[find(members, S)].relations
       IN /\ Holds(members', S, child, T) /\ Holds(members', T, parent, S)
          /\ FirstSpouse(rels) # 0 =>
               LET M == rels[FirstSpouse(rels)].targetId
               IN Holds(members', M, child, T) /\ Holds(members', T, parent, M)]_vars

\* A saved child edit of a source with a spouse who is neither the source nor
\* the child and now holds the child.
C5_Witness ==
  /\ last.op = "saved" /\ last.type = child
  /\ LET rels == members[find(members, last.sourceId)].relations
     IN /\ FirstSpouse(rels) # 0
        /\ rels[FirstSpouse(rels)].targetId \notin {last.sourceId, last.targetId}
        /\ Holds(members, rels[FirstSpouse(rels)].targetId, child, last.targetId)
        /\ Holds(members, last.targetId, parent, rels[FirstSpouse(rels)].targetId)

\* C6: after a saved spouse edit (S, T), T holds child->C and C holds
\* parent->T for every child C of S, and T holds no child relation other than
\* those it held and those to the children of S (children of children are not
\* linked).
C6_SpouseChildLinking ==
  [][SavedEdit(spouse) =>
       LET S == last'.sourceId
           T == last'.targetId
       IN /\ \A C \in ChildrenOf(members, S) :
               Holds(members', T, child, C) /\ Holds(members', C, parent, T)
          /\ ChildrenOf(members', T) \subseteq
               ChildrenOf(members, T) \cup ChildrenOf(members, S)]_vars

\* A saved spouse edit of a source with a child that has a child of its own:
\* the new spouse holds the child and not the grandchild.
C6_Witness ==
  /\ last.op = "saved" /\ last.type = spouse
  /\ \E C \in ChildrenOf(members, last.sourceId) :
       /\ C # last.targetId
       /\ Holds(members, last.targetId, child, C)
       /\ \E G \in ChildrenOf(members, C) :
            G \notin ChildrenOf(members, last.targetId)

\* C7: a saved edit towards an existing target, applied once more to the list
\* it gave, gives that list again, every relation sequence as it was.
C7_Idempotent ==
  [][last'.op = "saved" /\ ~last'.useNewTarget =>
       linkRelation(members', last'.sourceId, last'.targetId, last'.type)
         = members']_vars

\* A saved spouse edit towards an existing member that linked it to a child
\* of the source.
C7_Witness ==
  /\ last.op = "saved" /\ ~last.useNewTarget /\ last.type = spouse
  /\ \E C \in ChildrenOf(members, last.sourceId) :
       C # last.targetId /\ Holds(members, C, parent, last.targetId)

\* C8: a relation edit that ends in "Name required", "Select member" or
\* "Invalid" leaves the members list and the persisted family as they were.
C8_FailuresChangeNothing ==
  [][last'.op \in {"Name required", "Select member", "Invalid"} =>
       members' = members /\ stored' = stored]_vars

\* The edit refused for its target being its source, which is refused after
\* the new member was pushed.
C8_Witness == last.op = "Invalid" /\ Len(members) > 1 /\ stored = members

\* A decoded value that is neither a sequence nor an object whose members
\* field holds a sequence.
Unrecognised(v) ==
  ~IsArray(v) /\ ~(v.k = "object" /\ IsArray(Get(v, "members")))

\* The import of such a value.
ImportedUnrecognised(did) ==
  /\ did.text # 0
  /\ JSONparse(did.text).parses
  /\ Unrecognised(JSONparse(did.text).value)

\* C9: on the text of every import attempted, a value of an unrecognised
\* shape makes normalizeImportedFamily return the null result, which is not
\* the empty list it returns for a recognised shape without valid members.
C9_RejectsUnrecognised ==
  /\ Rejected # Accepted(<<>>)
  /\ ImportedUnrecognised(last) =>
       normalizeImportedFamily(JSONparse(last.text).value) = Rejected

\* C10: an import of a text that parses to a value of an unrecognised shape
\* leaves the members list and the persisted family as they were and does
\* not report "Imported".
C10_RejectedImportInstallsNothing ==
  [][ImportedUnrecognised(last') =>
       members' = members /\ stored' = stored /\ last'.op # "Imported"]_vars

\* C11: every list that normalizeImportedFamily returns has pairwise
\* distinct ids, a non-empty id and a non-empty name in every member, no
\* relation to its owner and no relation to an id that is not in the list.
C11_SanitizedIsValid ==
  result.ok =>
    /\ UniqueIds(result.list)
    /\ \A i \in 1..Len(result.list) :
         result.list[i].id # <<>> /\ result.list[i].name # <<>>
    /\ NoSelfRelations(result.list)
    /\ NoDangling(result.list)

\* A value holding a member with a relation to itself, one to an absent id
\* and one to a dropped item, and a later item with its id: two members are
\* returned, holding one relation each.
C11_Witness ==
  /\ result.ok
  /\ ItemsOf(decoded) = <<ImportItems[4], ImportItems[8], ImportItems[6]>>
  /\ Len(result.list) = 2
  /\ result.list[1].relations = <<Rel(child, <<"b">>), Rel(other, <<"b">>)>>
  /\ result.list[2].relations = <<Rel(parent, <<"a">>)>>

\* The item is an object with a string id and a string name that `filled`
\* accepts.
ValidItem(item, filled(_)) ==
  /\ item.k = "object"
  /\ Get(item, "id").k = "string" /\ filled(Get(item, "id").s)
  /\ Get(item, "name").k = "string" /\ filled(Get(item, "name").s)

\* The items kept: the valid ones whose id no earlier valid item has (the
\* first valid item of an id is the one kept), in the order of the input.
KeptItems(raw, filled(_)) ==
  LET kept(i) ==
        /\ ValidItem(raw[i], filled)
        /\ \A j \in 1..(i - 1) :
             ~(ValidItem(raw[j], filled) /\ Get(raw[j], "id").s = Get(raw[i], "id").s)
      upTo[i \in 0..Len(raw)] ==
        IF i = 0 THEN <<>>
        ELSE IF kept(i) THEN Append(upTo[i - 1], raw[i]) ELSE upTo[i - 1]
  IN upTo[Len(raw)]

\* The returned members are the kept items, one for one and in order.
ReturnsKept(filled(_)) ==
  LET keptItems == KeptItems(ItemsOf(decoded), filled)
  IN /\ result.ok
     /\ Len(result.list) = Len(keptItems)
     /\ \A i \in 1..Len(keptItems) :
          /\ result.list[i].id = Get(keptItems[i], "id").s
          /\ result.list[i].name = Trim(Get(keptItems[i], "name").s)

NonEmpty(s) == s # <<>>
NonBlank(s) == Trim(s) # <<>>

\* C12 as claimed: an item is kept exactly when it is an object with a
\* non-empty string id and a non-empty string name and no earlier kept item
\* has its id; the others are dropped, the import does not fail, and the
\* kept ones come out in the order of the input.
C12_KeepsNonEmpty == ReturnsKept(NonEmpty)

\* C12 as amended: the same with an id and a name that are not empty once
\* trimmed.
C12_KeepsNonBlank == ReturnsKept(NonBlank)

\* Three items of which the second has a blank name: the first and the
\* third are returned.
C12_Witness ==
  /\ ItemsOf(decoded) = <<ImportItems[5], ImportItems[8], ImportItems[11]>>
  /\ Len(result.list) = 2
  /\ result.list[1].id = <<"a">> /\ result.list[2].id = <<"c">>

\* The names as the sanitizer leaves them.
TrimmedNames(list) == \A i \in 1..Len(list) : Trim(list[i].name) = list[i].name

\* C13: the members list made from the bootstrap member by relation edits,
\* exported and handed to normalizeImportedFamily, comes back as it was: the
\* same members in the same order with the same fields and relation
\* sequences.  Stated for the lists without a repeated id and without a name
\* that trimming changes, so that no violation rests on either.
C13_RoundTrip ==
  UniqueIds(members) /\ TrimmedNames(members) =>
    normalizeImportedFamily(openExportModal(members)) = Accepted(members)

\* The list that a completed load, accepted import or reset had in hand
\* before ensureDefaultMember.
ListInHand(did, store) ==
  CASE did.op = "loaded" -> getFamily(store)
    [] did.op = "Imported" -> normalizeImportedFamily(JSONparse(did.text).value).list
    [] did.op = "Success" -> resetFamily(store)

\* C15: after a completed loadMembers, accepted import or reset of a logged-in
\* user the members list holds at least one member; when the list in hand is
\* empty the members list is one newly created member without relations,
\* which is the persisted family too, and otherwise it is the list in hand.
C15_DefaultMemberExists ==
  [][last'.op \in {"loaded", "Imported", "Success"} =>
       LET list == ListInHand(last', stored)
       IN /\ userKey # NoUser
          /\ Len(members') >= 1
          /\ list = <<>> =>
               /\ Len(members') = 1
               /\ members'[1].id \in GenIds
               /\ members'[1].relations = <<>>
               /\ stored' = members'
          /\ list # <<>> => members' = list]_vars

\* The import of the empty array over a family of several members: one
\* default member is installed and persisted.
C15_Witness ==
  /\ last.op = "Imported"
  /\ JSONparse(last.text).value = JArr(<<>>)
  /\ edits > 0
  /\ Len(members) = 1 /\ members[1].relations = <<>>
  /\ stored = members

\* s is the start of t.
IsPrefix(s, t) == Len(s) <= Len(t) /\ SubSeq(t, 1, Len(s)) = s

\* The ids of the members whose relations a saved edit (S, T) of the type may
\* extend: S and T, the spouse or partner S propagates a child to, and the
\* children of S on a spouse edit.
Touched(list, S, T, type) ==
  {S, T}
    \cup (IF type = child /\ FirstSpouse(list[find(list, S)].relations) # 0
          THEN {list[find(list, S)].relations[
                  FirstSpouse(list[find(list, S)].relations)].targetId}
          ELSE {})
    \cup (IF type = spouse THEN ChildrenOf(list, S) ELSE {})

\* C17: a saved relation edit keeps every member at its place with its id,
\* name and optional fields, appends one member (the target, at the end) in
\* new-member mode and none otherwise, keeps every relation sequence as the
\* start of the new one, leaves the relations of the members other than the
\* source, the target, the propagated spouse or partner (child edit) and the
\* source's children (spouse edit) as they were, and on a sibling edit adds
\* nothing but the sibling pair of source and target.
C17_EditFrame ==
  [][last'.op = "saved" =>
       LET S == last'.sourceId
           T == last'.targetId
           type == last'.type
           n == Len(members)
       IN /\ Len(members') = (IF last'.useNewTarget THEN n + 1 ELSE n)
          /\ last'.useNewTarget =>
               members'[n + 1].id = T /\ members'[n + 1].id \notin {NoTarget, S}
          /\ \A i \in 1..n :
               /\ [members'[i] EXCEPT !.relations = <<>>]
                    = [members[i] EXCEPT !.relations = <<>>]
               /\ IsPrefix(members[i].relations, members'[i].relations)
               /\ members[i].id \notin Touched(members, S, T, type) =>
                    members'[i].relations = members[i].relations
          /\ type = sibling =>
               \A i \in 1..Len(members') :
                 LET was == IF i <= n THEN members[i].relations ELSE <<>>
                 IN members'[i].relations \in
                      {was}
                        \cup (IF i = find(members', S)
                              THEN {Append(was, Rel(sibling, T))} ELSE {})
                        \cup (IF i = find(members', T)
                              THEN {Append(was, Rel(sibling, S))} ELSE {})]_vars

\* A saved spouse edit in new-member mode of a source with a child: the new
\* member is last and holds the child, and a member that is neither of them
\* holds relations.
C17_Witness ==
  /\ last.op = "saved" /\ last.type = spouse /\ last.useNewTarget
  /\ members[Len(members)].id = last.targetId
  /\ \E C \in ChildrenOf(members, last.sourceId) :
       Holds(members, last.targetId, child, C)
  /\ \E i \in 1..Len(members) :
       /\ members[i].id \notin
            {last.sourceId, last.targetId} \cup ChildrenOf(members, last.sourceId)
       /\ members[i].relations # <<>>

\* No invocation of a handler is in flight.
Quiescent == calls = <<>>

\* Two invocations of saveQuickRelation in flight hold the same members array.
SameSnapshot ==
  \E c, d \in DOMAIN calls :
    /\ c # d
    /\ calls[c].kind = "edit" /\ calls[d].kind = "edit"
    /\ calls[c].snapshot = calls[d].snapshot

\* C14: no two invocations of saveQuickRelation in flight run against the
\* same members array, and once the invocations have all ended, the target of
\* every committed edit is a member of the list and holds the relation with
\* its source, and no relation of the list targets a missing member.  Stated
\* for the runs in which no save was refused and no load, import or reset
\* installed its list after an edit was pressed, so that no violation rests
\* on either.
C14_OneEditInFlight ==
  ~log.failed /\ ~log.replaced =>
    /\ ~SameSnapshot
    /\ Quiescent =>
         /\ NoDangling(members)
         /\ \A e \in log.committed :
              /\ e[3] \in Ids(members)
              /\ Holds(members, e[1], e[2], e[3])
              /\ Holds(members, e[3], reciprocal(e[2]), e[1])

\* The step installs a list with setMembers.
Installs(did) == did.op \in {"loaded", "Imported", "Success", "saved"}

\* C16: a step of a handler that does not install a list with setMembers
\* leaves the members of the installed list as they were, relations included:
\* saveQuickRelation changes nothing of them before its setMembers, and
\* nothing at all when its saveFamily is refused.
C16_NothingBeforeCommit ==
  [][~Installs(last') => members' = members]_vars

\* C18: when no invocation is in flight, the members list of the screen is
\* the family persisted for the user.
C18_MemoryIsPersisted ==
  Quiescent /\ userKey # NoUser => members = stored

====
